---- MODULE Spec2Model ----
(***************************************************************************)
(* Model of spatial_tools/raster/envelope.py: Envelope, RasterEnvelope,    *)
(* the snapping helpers and the min_of / max_of reducers.                  *)
(*                                                                         *)
(* Coordinates and cell sizes are exact numbers, counted as whole multiples *)
(* of PRECISION (0.0000001), the tolerance of RasterEnvelope.__eq__.  The   *)
(* arithmetic (+, -, *, floor of a quotient, fmod, Decimal quotient and     *)
(* remainder) is exact: the rounding of binary floating point is not        *)
(* modelled.                                                                *)
(* An object is a record; its "kind" field names its Python class.  A call *)
(* that raises EnvelopeError yields the record EnvelopeError.              *)
(***************************************************************************)
EXTENDS Integers, Sequences, FiniteSets, TLC

\* Bounds of the inputs drawn by the actions
MaxCoord == 3
MaxCell == 2
MaxListX == 3
MaxListY == 1
MaxLen == 2

PRECISION == 1

VARIABLES call, result

vars == <<call, result>>

----------------------------------------------------------------------------
\* Arithmetic of the Python runtime

\* abs() / math.fabs
fabs(v) == IF v < 0 THEN -v ELSE v

\* int(Decimal / Decimal): the quotient truncated toward zero
DecimalQuotient(n, d) ==
    IF (n >= 0) = (d > 0) THEN fabs(n) \div fabs(d) ELSE -(fabs(n) \div fabs(d))

\* Decimal % Decimal and math.fmod: the remainder takes the sign of the dividend
fmod(n, d) == n - d * DecimalQuotient(n, d)

\* math.floor(n / d) for d > 0
floor_div(n, d) == n \div d

min(v, w) == IF v <= w THEN v ELSE w

max(v, w) == IF v >= w THEN v ELSE w

----------------------------------------------------------------------------
\* class EnvelopeError
EnvelopeError == [kind |-> "EnvelopeError"]

IsError(v) == v.kind = "EnvelopeError"

\* Python's None: the default of snap_re, and the result before any call
None == [kind |-> "None"]

\* a returned bool
Bool(b) == [kind |-> "bool", value |-> b]

\* a returned tuple of two numbers
Pair(t) == [kind |-> "tuple", value |-> t]

\* _assert_valid_envelope testing the x range only
assert_valid_envelope_x_only(x_min, y_min, x_max, y_max) ==
    x_min < x_max

\* _assert_valid_envelope accepting points and lines
assert_valid_envelope_lax(x_min, y_min, x_max, y_max) ==
    /\ x_min <= x_max
    /\ y_min <= y_max

\* Envelope._assert_valid_envelope
assert_valid_envelope(x_min, y_min, x_max, y_max) ==
    /\ x_min < x_max
    /\ y_min < y_max

\* Envelope.__init__
Envelope(x_min, y_min, x_max, y_max) ==
    IF assert_valid_envelope(x_min, y_min, x_max, y_max)
    THEN [kind |-> "Envelope", x_min |-> x_min, y_min |-> y_min,
          x_max |-> x_max, y_max |-> y_max]
    ELSE EnvelopeError

\* Envelope.is_subset
is_subset(self, other) ==
    IF self.x_min < other.x_min THEN FALSE
    ELSE IF self.x_max > other.x_max THEN FALSE
    ELSE IF self.y_min < other.y_min THEN FALSE
    ELSE IF self.y_max > other.y_max THEN FALSE
    ELSE TRUE

\* Envelope.is_superset
is_superset(self, other) ==
    IF self.x_min > other.x_min THEN FALSE
    ELSE IF self.x_max < other.x_max THEN FALSE
    ELSE IF self.y_min > other.y_min THEN FALSE
    ELSE IF self.y_max < other.y_max THEN FALSE
    ELSE TRUE

\* Envelope.is_disjoint
is_disjoint(self, other) ==
    IF self.x_min > other.x_max THEN TRUE
    ELSE IF self.x_max < other.x_min THEN TRUE
    ELSE IF self.y_min > other.y_max THEN TRUE
    ELSE IF self.y_max < other.y_min THEN TRUE
    ELSE FALSE

\* Envelope.union
Envelope_union(self, other) ==
    Envelope(min(self.x_min, other.x_min), min(self.y_min, other.y_min),
             max(self.x_max, other.x_max), max(self.y_max, other.y_max))

\* Envelope.intersection with min and max exchanged
Envelope_intersection_swapped(self, other) ==
    Envelope(min(self.x_min, other.x_min), min(self.y_min, other.y_min),
             max(self.x_max, other.x_max), max(self.y_max, other.y_max))

\* Envelope.intersection
Envelope_intersection(self, other) ==
    Envelope(max(self.x_min, other.x_min), max(self.y_min, other.y_min),
             min(self.x_max, other.x_max), min(self.y_max, other.y_max))

----------------------------------------------------------------------------
\* get_num_cells adding the extra cell without looking at the remainder
get_num_cells_extra(coord_max, coord_min, cell_size) ==
    DecimalQuotient(coord_max - coord_min, cell_size) + 1

\* get_num_cells
get_num_cells(coord_max, coord_min, cell_size) ==
    LET coord_range == coord_max - coord_min
        n_cells == DecimalQuotient(coord_range, cell_size)
    IN  IF fmod(coord_range, cell_size) # 0 THEN n_cells + 1 ELSE n_cells

\* calculate_snapped_window leaving the lower right corner where it was
calculate_snapped_window_unmoved(env, cell_size) ==
    <<env.x_max, env.y_min,
      get_num_cells(env.x_max, env.x_min, cell_size),
      get_num_cells(env.y_max, env.y_min, cell_size)>>

\* calculate_snapped_window: <<x_max, y_min, x_size, y_size>>
calculate_snapped_window(env, cell_size) ==
    LET x_size == get_num_cells(env.x_max, env.x_min, cell_size)
        y_size == get_num_cells(env.y_max, env.y_min, cell_size)
        x_max == env.x_min + (x_size * cell_size)
        y_min == env.y_max - (y_size * cell_size)
    IN  <<x_max, y_min, x_size, y_size>>

\* RasterEnvelope.__init__
RasterEnvelope(x_min, y_min, x_max, y_max, cell_size) ==
    LET env == Envelope(x_min, y_min, x_max, y_max)
        win == calculate_snapped_window(env, cell_size)
    IN  IF IsError(env) THEN EnvelopeError
        ELSE [kind |-> "RasterEnvelope", x_min |-> x_min, y_min |-> win[2],
              x_max |-> win[1], y_max |-> y_max, cell_size |-> cell_size,
              x_size |-> win[3], y_size |-> win[4]]

\* RasterEnvelope.is_snapped
is_snapped(self, other) ==
    IF self.cell_size # other.cell_size THEN FALSE
    ELSE IF fmod(self.x_min - other.x_min, self.cell_size) # 0 THEN FALSE
    ELSE IF fmod(self.y_max - other.y_max, self.cell_size) # 0 THEN FALSE
    ELSE TRUE

\* RasterEnvelope.is_snapped_subset
is_snapped_subset(self, other) ==
    IF ~is_snapped(self, other) THEN FALSE
    ELSE IF ~is_subset(self, other) THEN FALSE
    ELSE TRUE

\* RasterEnvelope.is_snapped_superset
is_snapped_superset(self, other) ==
    IF ~is_snapped(self, other) THEN FALSE
    ELSE IF ~is_superset(self, other) THEN FALSE
    ELSE TRUE

\* RasterEnvelope.__eq__ (the x_min test is written three times in the code)
RasterEnvelope_eq(self, other) ==
    IF fabs(self.x_min - other.x_min) > PRECISION THEN FALSE
    ELSE IF fabs(self.y_min - other.y_min) > PRECISION THEN FALSE
    ELSE IF fabs(self.x_min - other.x_min) > PRECISION THEN FALSE
    ELSE IF fabs(self.x_min - other.x_min) > PRECISION THEN FALSE
    ELSE IF fabs(self.cell_size - other.cell_size) > PRECISION THEN FALSE
    ELSE IF self.x_size # other.x_size THEN FALSE
    ELSE IF self.y_size # other.y_size THEN FALSE
    ELSE TRUE

\* get_offset_from_xy with int() truncation in place of math.floor
get_offset_from_xy_trunc(self, x, y) ==
    <<DecimalQuotient(x - self.x_min, self.cell_size),
      DecimalQuotient(self.y_max - y, self.cell_size)>>

\* RasterEnvelope.get_offset_from_xy: <<x_off, y_off>>
get_offset_from_xy(self, x, y) ==
    <<floor_div(x - self.x_min, self.cell_size),
      floor_div(self.y_max - y, self.cell_size)>>

\* get_xy_from_offset counting the rows upward from y_min
get_xy_from_offset_from_bottom(self, x_off, y_off) ==
    <<self.x_min + x_off * self.cell_size,
      self.y_min + y_off * self.cell_size>>

\* RasterEnvelope.get_xy_from_offset: <<x, y>>
get_xy_from_offset(self, x_off, y_off) ==
    <<self.x_min + x_off * self.cell_size,
      self.y_max - y_off * self.cell_size>>

\* get_minimum_bounding_envelope keeping the upper left corner of bound_env
get_minimum_bounding_envelope_unsnapped(bound_env, snap_re) ==
    IF is_disjoint(bound_env, snap_re) THEN EnvelopeError
    ELSE RasterEnvelope(bound_env.x_min, bound_env.y_min, bound_env.x_max,
                        bound_env.y_max, snap_re.cell_size)

\* get_minimum_bounding_envelope starting one cell before the cell that holds
\* the upper left corner of bound_env
get_minimum_bounding_envelope_padded(bound_env, snap_re) ==
    IF is_disjoint(bound_env, snap_re) THEN EnvelopeError
    ELSE LET off == get_offset_from_xy(snap_re, bound_env.x_min, bound_env.y_max)
             x_min == snap_re.x_min + ((off[1] - 1) * snap_re.cell_size)
             y_max == snap_re.y_max - ((off[2] - 1) * snap_re.cell_size)
         IN  RasterEnvelope(x_min, bound_env.y_min, bound_env.x_max, y_max,
                            snap_re.cell_size)

\* get_minimum_bounding_envelope
get_minimum_bounding_envelope(bound_env, snap_re) ==
    IF is_disjoint(bound_env, snap_re) THEN EnvelopeError
    ELSE LET off == get_offset_from_xy(snap_re, bound_env.x_min, bound_env.y_max)
             x_min == snap_re.x_min + (off[1] * snap_re.cell_size)
             y_max == snap_re.y_max - (off[2] * snap_re.cell_size)
         IN  RasterEnvelope(x_min, bound_env.y_min, bound_env.x_max, y_max,
                            snap_re.cell_size)

\* RasterEnvelope.union returning the copies that intersection returns in the
\* subset and superset branches
RasterEnvelope_union_copies(self, other, snap_this) ==
    IF is_snapped_subset(self, other) THEN other
    ELSE IF is_snapped_superset(self, other) THEN self
    ELSE IF is_subset(self, other)
         THEN IF snap_this THEN self
              ELSE get_minimum_bounding_envelope(other, self)
    ELSE IF is_superset(self, other)
         THEN IF snap_this THEN get_minimum_bounding_envelope(self, other)
              ELSE other
    ELSE LET env == Envelope_union(self, other)
         IN  IF IsError(env) THEN env
             ELSE IF snap_this THEN get_minimum_bounding_envelope(env, self)
             ELSE get_minimum_bounding_envelope(env, other)

\* RasterEnvelope.union returning self in the superset branch whatever
\* snap_this is
RasterEnvelope_union_superset_self(self, other, snap_this) ==
    IF is_snapped_subset(self, other) THEN other
    ELSE IF is_snapped_superset(self, other) THEN self
    ELSE IF is_subset(self, other)
         THEN IF snap_this THEN get_minimum_bounding_envelope(other, self)
              ELSE other
    ELSE IF is_superset(self, other) THEN self
    ELSE LET env == Envelope_union(self, other)
         IN  IF IsError(env) THEN env
             ELSE IF snap_this THEN get_minimum_bounding_envelope(env, self)
             ELSE get_minimum_bounding_envelope(env, other)

\* RasterEnvelope.union
RasterEnvelope_union(self, other, snap_this) ==
    IF is_snapped_subset(self, other) THEN other
    ELSE IF is_snapped_superset(self, other) THEN self
    ELSE IF is_subset(self, other)
         THEN IF snap_this THEN get_minimum_bounding_envelope(other, self)
              ELSE other
    ELSE IF is_superset(self, other)
         THEN IF snap_this THEN self
              ELSE get_minimum_bounding_envelope(self, other)
    ELSE LET env == Envelope_union(self, other)
         IN  IF IsError(env) THEN env
             ELSE IF snap_this THEN get_minimum_bounding_envelope(env, self)
             ELSE get_minimum_bounding_envelope(env, other)

\* RasterEnvelope.intersection returning the copies that union returns in the
\* snapped branches
RasterEnvelope_intersection_copies(self, other, snap_this) ==
    IF is_snapped_subset(self, other) THEN other
    ELSE IF is_snapped_superset(self, other) THEN self
    ELSE IF is_subset(self, other)
         THEN IF snap_this THEN self
              ELSE get_minimum_bounding_envelope(self, other)
    ELSE IF is_superset(self, other)
         THEN IF snap_this THEN get_minimum_bounding_envelope(other, self)
              ELSE other
    ELSE LET env == Envelope_intersection(self, other)
         IN  IF IsError(env) THEN env
             ELSE IF snap_this THEN get_minimum_bounding_envelope(env, self)
             ELSE get_minimum_bounding_envelope(env, other)

\* RasterEnvelope.intersection with the two grids of the general branch
\* exchanged
RasterEnvelope_intersection_exchanged(self, other, snap_this) ==
    IF is_snapped_subset(self, other) THEN self
    ELSE IF is_snapped_superset(self, other) THEN other
    ELSE IF is_subset(self, other)
         THEN IF snap_this THEN self
              ELSE get_minimum_bounding_envelope(self, other)
    ELSE IF is_superset(self, other)
         THEN IF snap_this THEN get_minimum_bounding_envelope(other, self)
              ELSE other
    ELSE LET env == Envelope_intersection(self, other)
         IN  IF IsError(env) THEN env
             ELSE IF snap_this THEN get_minimum_bounding_envelope(env, other)
             ELSE get_minimum_bounding_envelope(env, self)

\* RasterEnvelope.intersection
RasterEnvelope_intersection(self, other, snap_this) ==
    IF is_snapped_subset(self, other) THEN self
    ELSE IF is_snapped_superset(self, other) THEN other
    ELSE IF is_subset(self, other)
         THEN IF snap_this THEN self
              ELSE get_minimum_bounding_envelope(self, other)
    ELSE IF is_superset(self, other)
         THEN IF snap_this THEN get_minimum_bounding_envelope(other, self)
              ELSE other
    ELSE LET env == Envelope_intersection(self, other)
         IN  IF IsError(env) THEN env
             ELSE IF snap_this THEN get_minimum_bounding_envelope(env, self)
             ELSE get_minimum_bounding_envelope(env, other)

----------------------------------------------------------------------------
\* min_of: the body of the for loop, from index i to the end of re_list
RECURSIVE min_of_loop(_, _, _, _)
min_of_loop(re_list, snap_re, min_re, i) ==
    IF i > Len(re_list) THEN min_re
    ELSE LET min_env == RasterEnvelope_intersection(min_re, re_list[i], TRUE)
         IN  IF IsError(min_env) THEN min_env
             ELSE LET next_re == get_minimum_bounding_envelope(min_env, snap_re)
                  IN  IF IsError(next_re) THEN next_re
                      ELSE min_of_loop(re_list, snap_re, next_re, i + 1)

\* min_of
min_of(re_list, snap_re) ==
    min_of_loop(re_list, IF snap_re = None THEN re_list[1] ELSE snap_re,
                re_list[1], 2)

\* max_of: the body of the for loop, from index i to the end of re_list
RECURSIVE max_of_loop(_, _, _, _)
max_of_loop(re_list, snap_re, max_re, i) ==
    IF i > Len(re_list) THEN max_re
    ELSE LET max_env == RasterEnvelope_union(max_re, re_list[i], TRUE)
         IN  IF IsError(max_env) THEN max_env
             ELSE LET next_re == get_minimum_bounding_envelope(max_env, snap_re)
                  IN  IF IsError(next_re) THEN next_re
                      ELSE max_of_loop(re_list, snap_re, next_re, i + 1)

\* max_of
max_of(re_list, snap_re) ==
    max_of_loop(re_list, IF snap_re = None THEN re_list[1] ELSE snap_re,
                re_list[1], 2)

----------------------------------------------------------------------------
\* Inputs of the calls

Coords == 0..MaxCoord

CellSizes == 1..MaxCell

\* the valid Envelopes with corners in Coords
Envelopes ==
    {Envelope(x0, y0, x1, y1) : x0, y0, x1, y1 \in Coords} \ {EnvelopeError}

\* the RasterEnvelopes constructed from corners in Coords
RasterEnvelopes ==
    {RasterEnvelope(x0, y0, x1, y1, c) :
        x0, y0, x1, y1 \in Coords, c \in CellSizes} \ {EnvelopeError}

\* the RasterEnvelopes handed to min_of and max_of
ListEnvelopes ==
    {RasterEnvelope(x0, y0, x1, y1, c) :
        x0, x1 \in 0..MaxListX, y0, y1 \in 0..MaxListY, c \in CellSizes}
    \ {EnvelopeError}

\* the elements that follow the first one in re_list
ReTails == UNION {[1..n -> ListEnvelopes] : n \in 0..(MaxLen - 1)}

\* reference grids that need not be in the list: for each cell size, the grid
\* of the envelope constructed from the unit square at the origin
OtherReferences == {RasterEnvelope(0, 0, 1, 1, c) : c \in CellSizes}

\* snap_re of min_of / max_of: omitted, one of the envelopes of the list, or
\* another reference
SnapChoices(re_list) ==
    {None} \cup {re_list[k] : k \in 1..Len(re_list)} \cup OtherReferences

\* the coordinates of the points handed to get_offset_from_xy: inside and
\* outside the envelopes, on and off the cell boundaries
Points == (-MaxCoord)..(2 * MaxCoord)

\* the column and row numbers handed to get_xy_from_offset
Offsets == (-MaxCoord)..MaxCoord

----------------------------------------------------------------------------
\* A caller constructs an object and then makes one call on it.  call holds
\* the name and the arguments of the last call, result what it returned (or
\* EnvelopeError if it raised).

Init ==
    /\ call = [fn |-> "none"]
    /\ result = None

\* the last call constructed a plain Envelope
HasEnvelope == call.fn = "Envelope" /\ result.kind = "Envelope"

\* the last call constructed a RasterEnvelope
HasRasterEnvelope == call.fn = "RasterEnvelope" /\ result.kind = "RasterEnvelope"

\* Envelope(x_min, y_min, x_max, y_max)
NewEnvelope ==
    /\ call.fn = "none"
    /\ \E x_min, y_min, x_max, y_max \in Coords :
        /\ call' = [fn |-> "Envelope", x_min |-> x_min, y_min |-> y_min,
                    x_max |-> x_max, y_max |-> y_max]
        /\ result' = Envelope(x_min, y_min, x_max, y_max)

\* RasterEnvelope(x_min, y_min, x_max, y_max, cell_size)
NewRasterEnvelope ==
    /\ call.fn = "none"
    /\ \E x_min, y_min, x_max, y_max \in Coords, cell_size \in CellSizes :
        /\ call' = [fn |-> "RasterEnvelope", x_min |-> x_min, y_min |-> y_min,
                    x_max |-> x_max, y_max |-> y_max, cell_size |-> cell_size]
        /\ result' = RasterEnvelope(x_min, y_min, x_max, y_max, cell_size)

\* self.union(other) on plain Envelopes
EnvelopeUnion ==
    /\ HasEnvelope
    /\ \E other \in Envelopes :
        /\ call' = [fn |-> "Envelope.union", self |-> result, other |-> other]
        /\ result' = Envelope_union(result, other)

\* self.intersection(other) on plain Envelopes
EnvelopeIntersection ==
    /\ HasEnvelope
    /\ \E other \in Envelopes :
        /\ call' = [fn |-> "Envelope.intersection", self |-> result,
                    other |-> other]
        /\ result' = Envelope_intersection(result, other)

\* self.union(other, snap_this)
Union ==
    /\ HasRasterEnvelope
    /\ \E other \in RasterEnvelopes, snap_this \in BOOLEAN :
        /\ call' = [fn |-> "union", self |-> result, other |-> other,
                    snap_this |-> snap_this]
        /\ result' = RasterEnvelope_union(result, other, snap_this)

\* self.intersection(other, snap_this)
Intersection ==
    /\ HasRasterEnvelope
    /\ \E other \in RasterEnvelopes, snap_this \in BOOLEAN :
        /\ call' = [fn |-> "intersection", self |-> result, other |-> other,
                    snap_this |-> snap_this]
        /\ result' = RasterEnvelope_intersection(result, other, snap_this)

\* get_minimum_bounding_envelope(bound_env, snap_re); bound_env is the Envelope
\* or RasterEnvelope just constructed
MinimumBoundingEnvelope ==
    /\ HasEnvelope \/ HasRasterEnvelope
    /\ \E snap_re \in RasterEnvelopes :
        /\ call' = [fn |-> "get_minimum_bounding_envelope",
                    bound_env |-> result, snap_re |-> snap_re]
        /\ result' = get_minimum_bounding_envelope(result, snap_re)

\* min_of(re_list, snap_re); re_list starts with the RasterEnvelope just
\* constructed
MinOf ==
    /\ HasRasterEnvelope
    /\ result \in ListEnvelopes
    /\ \E tail \in ReTails :
        \E snap_re \in SnapChoices(<<result>> \o tail) :
            /\ call' = [fn |-> "min_of", re_list |-> <<result>> \o tail,
                        snap_re |-> snap_re]
            /\ result' = min_of(<<result>> \o tail, snap_re)

\* max_of(re_list, snap_re); re_list starts with the RasterEnvelope just
\* constructed
MaxOf ==
    /\ HasRasterEnvelope
    /\ result \in ListEnvelopes
    /\ \E tail \in ReTails :
        \E snap_re \in SnapChoices(<<result>> \o tail) :
            /\ call' = [fn |-> "max_of", re_list |-> <<result>> \o tail,
                        snap_re |-> snap_re]
            /\ result' = max_of(<<result>> \o tail, snap_re)

\* self == other on RasterEnvelopes
Eq ==
    /\ HasRasterEnvelope
    /\ \E other \in RasterEnvelopes :
        /\ call' = [fn |-> "__eq__", self |-> result, other |-> other]
        /\ result' = Bool(RasterEnvelope_eq(result, other))

\* self.get_offset_from_xy(x, y)
GetOffsetFromXY ==
    /\ HasRasterEnvelope
    /\ \E x, y \in Points :
        /\ call' = [fn |-> "get_offset_from_xy", self |-> result,
                    x |-> x, y |-> y]
        /\ result' = Pair(get_offset_from_xy(result, x, y))

\* self.get_xy_from_offset(x_off, y_off)
GetXYFromOffset ==
    /\ HasRasterEnvelope
    /\ \E x_off, y_off \in Offsets :
        /\ call' = [fn |-> "get_xy_from_offset", self |-> result,
                    x_off |-> x_off, y_off |-> y_off]
        /\ result' = Pair(get_xy_from_offset(result, x_off, y_off))

Next ==
    \/ NewEnvelope
    \/ NewRasterEnvelope
    \/ EnvelopeUnion
    \/ EnvelopeIntersection
    \/ Union
    \/ Intersection
    \/ MinimumBoundingEnvelope
    \/ MinOf
    \/ MaxOf
    \/ Eq
    \/ GetOffsetFromXY
    \/ GetXYFromOffset

Spec == Init /\ [][Next]_vars

----------------------------------------------------------------------------
\* Vocabulary of the properties

IsRaster(v) == v.kind = "RasterEnvelope"

\* v covers w on all four sides
Contains(v, w) ==
    /\ v.x_min <= w.x_min
    /\ v.y_min <= w.y_min
    /\ v.x_max >= w.x_max
    /\ v.y_max >= w.y_max

\* the extent of v is x_size by y_size whole cells
WholeCells(v) ==
    /\ v.x_max - v.x_min = v.x_size * v.cell_size
    /\ v.y_max - v.y_min = v.y_size * v.cell_size

\* w is on the grid of ref: same cell size, corners on ref's cell boundaries
OnGrid(w, ref) ==
    /\ w.cell_size = ref.cell_size
    /\ \E i \in -(4 * MaxCoord + 8)..(4 * MaxCoord + 8) :
           w.x_min = ref.x_min + i * ref.cell_size
    /\ \E j \in -(4 * MaxCoord + 8)..(4 * MaxCoord + 8) :
           w.y_max = ref.y_max + j * ref.cell_size

\* the grid envelopes on the grid of ref that cover bound and whose edges lie
\* less than two cells outside the edges of bound
NearGridEnvelopes(bound, ref) ==
    LET c == ref.cell_size
        OnX(x) == \E i \in -(4 * MaxCoord + 8)..(4 * MaxCoord + 8) :
                      x = ref.x_min + i * c
        OnY(y) == \E j \in -(4 * MaxCoord + 8)..(4 * MaxCoord + 8) :
                      y = ref.y_max + j * c
    IN  {RasterEnvelope(x0, y0, x1, y1, c) :
            x0 \in {x \in (bound.x_min - 2 * c + 1)..bound.x_min : OnX(x)},
            y0 \in (bound.y_min - 2 * c + 1)..bound.y_min,
            x1 \in bound.x_max..(bound.x_max + 2 * c - 1),
            y1 \in {y \in bound.y_max..(bound.y_max + 2 * c - 1) : OnY(y)}}

----------------------------------------------------------------------------
----------------------------------------------------------------------------
CeilingCells(range, cell_size) ==
    CHOOSE n \in 0..range : n * cell_size >= range /\ (n - 1) * cell_size < range

Selected == IF call.snap_this THEN call.self ELSE call.other

SnappedSubset(v, w) == OnGrid(v, w) /\ Contains(w, v)

\* C6: if a is a snapped subset of b then, for both values of snap_this,
\* a.union(b) equals b and a.intersection(b) equals a; if a is a snapped
\* superset of b then a.union(b) equals a and a.intersection(b) equals b.
C6_SnappedShortCircuit ==
    /\ (call.fn = "union" /\ SnappedSubset(call.self, call.other))
        => (result = call.other /\ RasterEnvelope_eq(result, call.other))
    /\ (call.fn = "intersection" /\ SnappedSubset(call.self, call.other))
        => (result = call.self /\ RasterEnvelope_eq(result, call.self))
    /\ (call.fn = "union" /\ SnappedSubset(call.other, call.self))
        => (result = call.self /\ RasterEnvelope_eq(result, call.self))
    /\ (call.fn = "intersection" /\ SnappedSubset(call.other, call.self))
        => (result = call.other /\ RasterEnvelope_eq(result, call.other))

\* C6 witness: the intersection of a proper snapped subset with its superset,
\* snap_this false
C6_Witness ==
    /\ call.fn = "intersection"
    /\ SnappedSubset(call.self, call.other)
    /\ call.self # call.other
    /\ ~call.snap_this
    /\ result = call.self

\* C7: if a.is_disjoint(b) then a.intersection(b, snap_this) raises
\* EnvelopeError for both values of snap_this.
C7_DisjointRaises ==
    (call.fn = "intersection" /\ is_disjoint(call.self, call.other))
    => IsError(result)

\* C7 witness: the intersection of envelopes disjoint in y only, snapped to the
\* other one
C7_Witness ==
    /\ call.fn = "intersection"
    /\ call.self.y_min > call.other.y_max
    /\ call.self.x_min = call.other.x_min
    /\ ~call.snap_this
    /\ IsError(result)

\* C8: Envelope(x_min, y_min, x_max, y_max) returns an instance holding the
\* four coordinates if x_min < x_max and y_min < y_max, and raises
\* EnvelopeError otherwise; RasterEnvelope raises for the same inputs.
C8_Validation ==
    /\ call.fn = "Envelope"
        => IF call.x_min < call.x_max /\ call.y_min < call.y_max
           THEN result = [kind |-> "Envelope", x_min |-> call.x_min,
                          y_min |-> call.y_min, x_max |-> call.x_max,
                          y_max |-> call.y_max]
           ELSE IsError(result)
    /\ call.fn = "RasterEnvelope"
        => IF call.x_min < call.x_max /\ call.y_min < call.y_max
           THEN IsRaster(result)
           ELSE IsError(result)

\* C8 witness: a horizontal line is refused
C8_Witness ==
    /\ call.fn = "Envelope"
    /\ call.x_min < call.x_max
    /\ call.y_min = call.y_max
    /\ IsError(result)

----------------------------------------------------------------------------
\* a and b overlap in an area of positive width and height
ShareArea(a, b) ==
    /\ a.x_min < b.x_max
    /\ b.x_min < a.x_max
    /\ a.y_min < b.y_max
    /\ b.y_min < a.y_max

\* a and b are not disjoint but meet only along an edge or at a corner
OnlyTouch(a, b) == ~is_disjoint(a, b) /\ ~ShareArea(a, b)

\* C9 as claimed: a.intersection(b) on plain Envelopes raises EnvelopeError
\* exactly when a.is_disjoint(b), and returns a valid Envelope otherwise.
C9_Original ==
    call.fn = "Envelope.intersection"
    => (IsError(result) <=> is_disjoint(call.self, call.other))

\* C9 as amended: a.intersection(b) raises EnvelopeError exactly when a and b
\* share no area of positive width and height, that is when they are disjoint
\* or only touch along an edge or at a corner; is_disjoint implies the raise
\* but not the converse.  When they share area it returns the valid Envelope
\* of the overlap.
C9_IntersectionRaises ==
    call.fn = "Envelope.intersection"
    => /\ IsError(result) <=> ~ShareArea(call.self, call.other)
       /\ is_disjoint(call.self, call.other) => IsError(result)
       /\ OnlyTouch(call.self, call.other) => IsError(result)
       /\ ~IsError(result)
            => /\ result.kind = "Envelope"
               /\ result.x_min < result.x_max
               /\ result.y_min < result.y_max
               /\ Contains(call.self, result)
               /\ Contains(call.other, result)

\* C9 witness: two envelopes that touch along an edge are not disjoint, and
\* their intersection raises
C9_Witness ==
    /\ call.fn = "Envelope.intersection"
    /\ call.self.x_max = call.other.x_min
    /\ call.self.y_min = call.other.y_min
    /\ call.self.y_max = call.other.y_max
    /\ ~is_disjoint(call.self, call.other)
    /\ IsError(result)

\* the fold of C10: the plain Envelope intersection of the running result with
\* the next element, snapped to snap_re
RECURSIVE PlainFold(_, _, _, _)
PlainFold(re_list, snap_re, acc, i) ==
    IF i > Len(re_list) THEN acc
    ELSE LET env == Envelope_intersection(acc, re_list[i])
         IN  IF IsError(env) THEN env
             ELSE LET next_re == get_minimum_bounding_envelope(env, snap_re)
                  IN  IF IsError(next_re) THEN next_re
                      ELSE PlainFold(re_list, snap_re, next_re, i + 1)

\* the reference grid of a min_of / max_of call
Reference == IF call.snap_re = None THEN call.re_list[1] ELSE call.snap_re

\* C10: min_of returns what the left-to-right fold returns that starts from the
\* first element and at each step snaps the plain Envelope intersection of the
\* running result and the next element to the reference; it fails exactly when
\* that fold fails.
C10_MinOfIsPlainFold ==
    call.fn = "min_of"
    => result = PlainFold(call.re_list, Reference, call.re_list[1], 2)

----------------------------------------------------------------------------
\* C11: whenever min_of(re_list, snap_re) or max_of(re_list, snap_re) returns,
\* for a list of any length from one up and an explicit or defaulted snap_re,
\* the result has the cell size of the reference and is snapped to it.
C11_AlignedToReference ==
    (call.fn \in {"min_of", "max_of"} /\ IsRaster(result))
    => /\ result.cell_size = Reference.cell_size
       /\ is_snapped(result, Reference)

\* C11 for the lists the loop body runs on: with two or more elements the
\* result of min_of and max_of is on the reference grid
C11_AlignedWhenLoopRuns ==
    (call.fn \in {"min_of", "max_of"} /\ Len(call.re_list) >= 2
        /\ IsRaster(result))
    => /\ result.cell_size = Reference.cell_size
       /\ is_snapped(result, Reference)
       /\ OnGrid(result, Reference)

\* a single-element list with an explicit reference on another grid: the loop
\* body never runs and the copy of the element is returned as it is
C11_SingleElementUnsnapped ==
    /\ call.fn \in {"min_of", "max_of"}
    /\ Len(call.re_list) = 1
    /\ call.snap_re # None
    /\ ~is_snapped(call.re_list[1], call.snap_re)
    /\ result = call.re_list[1]

----------------------------------------------------------------------------
\* the reorderings of a sequence
Reorderings(seq) ==
    {[i \in 1..Len(seq) |-> seq[p[i]]] :
        p \in {q \in [1..Len(seq) -> 1..Len(seq)] :
                  \A i, j \in 1..Len(seq) : q[i] = q[j] => i = j}}

\* seq reordered so that its k-th element comes first
MoveToFront(seq, k) ==
    <<seq[k]>> \o SubSeq(seq, 1, k - 1) \o SubSeq(seq, k + 1, Len(seq))

\* two calls end the same way: both raise, or both return and the returned
\* envelopes compare equal with ==
SameOutcome(v, w) ==
    IF IsRaster(v) /\ IsRaster(w) THEN RasterEnvelope_eq(v, w)
    ELSE IsError(v) /\ IsError(w)

\* C12: with the reference passed explicitly, min_of(seq, snap_re=R) ends the
\* same way for every permutation of seq; and min_of(seq, snap_re=seq[k]) ends
\* the same way as min_of without a reference on seq reordered so that seq[k]
\* comes first.
C12_OrderIndependent ==
    (call.fn = "min_of" /\ call.snap_re # None)
    => /\ \A perm \in Reorderings(call.re_list) :
              SameOutcome(result, min_of(perm, call.snap_re))
       /\ \A k \in 1..Len(call.re_list) :
              call.snap_re = call.re_list[k]
                  => SameOutcome(result,
                                 min_of(MoveToFront(call.re_list, k), None))

\* the order matters with an explicit reference: min_of returns envelopes of
\* different numbers of cells for a list and for the list reversed
C12_OrderMatters ==
    /\ call.fn = "min_of"
    /\ Len(call.re_list) = 2
    /\ call.snap_re = call.re_list[2]
    /\ IsRaster(result)
    /\ LET swapped == min_of(<<call.re_list[2], call.re_list[1]>>, call.snap_re)
       IN  /\ IsRaster(swapped)
           /\ swapped.x_size # result.x_size

----------------------------------------------------------------------------
\* v and w differ by at most the tolerance
Within(v, w) == fabs(v - w) <= PRECISION

\* C13: two RasterEnvelopes compare equal with == if and only if x_min, y_min,
\* x_max, y_max and the cell size each differ by at most PRECISION and x_size
\* and y_size are equal; envelopes whose x_max or y_max differ by more than
\* PRECISION never compare equal.
C13_EqualityTolerance ==
    call.fn = "__eq__"
    => /\ result.value
            <=> /\ Within(call.self.x_min, call.other.x_min)
                /\ Within(call.self.y_min, call.other.y_min)
                /\ Within(call.self.x_max, call.other.x_max)
                /\ Within(call.self.y_max, call.other.y_max)
                /\ Within(call.self.cell_size, call.other.cell_size)
                /\ call.self.x_size = call.other.x_size
                /\ call.self.y_size = call.other.y_size
       /\ ~Within(call.self.x_max, call.other.x_max) => ~result.value
       /\ ~Within(call.self.y_max, call.other.y_max) => ~result.value

\* what == does test: x_min, y_min and the cell size within PRECISION, x_size
\* and y_size equal
C13_TestedFields ==
    call.fn = "__eq__"
    => (result.value
            <=> /\ Within(call.self.x_min, call.other.x_min)
                /\ Within(call.self.y_min, call.other.y_min)
                /\ Within(call.self.cell_size, call.other.cell_size)
                /\ call.self.x_size = call.other.x_size
                /\ call.self.y_size = call.other.y_size)

\* envelopes of slightly different cell sizes compare equal although their
\* x_max differ by more than PRECISION
C13_EqualDespiteXMax ==
    /\ call.fn = "__eq__"
    /\ result.value
    /\ ~Within(call.self.x_max, call.other.x_max)

----------------------------------------------------------------------------
----------------------------------------------------------------------------
----------------------------------------------------------------------------
\* the envelope whose grid snap_this does not select
NotSelected == IF call.snap_this THEN call.other ELSE call.self

----------------------------------------------------------------------------
====
